---- MODULE Spec2Model ----
(***************************************************************************)
(* Model of src/main.rs of spartan-zkinterface: the command-line driver    *)
(* that reads a zkinterface circuit, builds a Spartan R1CS instance,       *)
(* checks satisfiability and runs the NIZK or SNARK prove/verify flow.     *)
(*                                                                         *)
(* main() is a single sequential function; pc is its position.  The calls  *)
(* it makes into the backend (libspartan, merlin) are recorded, with the   *)
(* values of their arguments, in the history variable calls.  The results  *)
(* of the backend calls are taken over the whole range of their Rust       *)
(* return types.                                                           *)
(***************************************************************************)
EXTENDS Integers, Sequences, FiniteSets, TLC

(* ------------------------------ bounds --------------------------------- *)
\* longest command line considered (program name included)
MaxArgc == 6
\* number of distinct file contents considered
NumContents == 2

(* --------------------------- input universes --------------------------- *)
Modes == {"prove", "verify", "bench"}
Flags == {"--nizk", "--snark", "--fast"}
Paths == {"a.zkif", "b.zkif"}

\* command lines: program name, mode, variant flag, three paths, extras
ArgAt(i) ==
  IF i = 1 THEN {"bin"}
  ELSE IF i = 2 THEN Modes
  ELSE IF i = 3 THEN Flags
  ELSE IF i <= 6 THEN Paths
  ELSE {"extra"}

CommandLines ==
  UNION { { s \in [1..n -> Modes \cup Flags \cup Paths \cup {"bin", "extra"}] :
              \A i \in 1..n : s[i] \in ArgAt(i) } : n \in 1..MaxArgc }

\* a file system: each path is unreadable (0) or holds some content
FileSystems == [Paths -> 0..NumContents]

(* ------------------------------ values --------------------------------- *)
NoVal == [kind |-> "none"]
NoneArg == "<None>"

NoCallTr == 0

VARIABLES
  pc,                 \* position in main()
  args,               \* env::args()
  fs,                 \* the files main() may open
  nizk,               \* line 16
  circuitfn, inputsfn, witnessfn,    \* lines 32-34
  bufh, bufcs, bufw,  \* lines 37-44
  r1cs,               \* line 49
  inst, assignment_inputs, assignment_vars,   \* lines 57-59
  gens,               \* line 75 / line 111
  comm, decomm,       \* line 113
  transcripts,        \* every merlin Transcript created, by identity
  prover_transcript,  \* line 78 / 116 (index into transcripts)
  verifier_transcript,\* line 97 / 133 (index into transcripts)
  proof,              \* line 79 / 117
  out,                \* lines written to stderr
  outcome,            \* how the process ended
  calls               \* history: calls made into lib / backend

vars == << pc, args, fs, nizk, circuitfn, inputsfn, witnessfn, bufh, bufcs,
           bufw, r1cs, inst, assignment_inputs, assignment_vars, gens, comm,
           decomm, transcripts, prover_transcript, verifier_transcript,
           proof, out, outcome, calls >>

(* ------------------------- helpers for main() -------------------------- *)
\* args.get(i): zero-based, None past the end
ArgGet(i) == IF i < Len(args) THEN args[i + 1] ELSE NoneArg

Running == [kind |-> "running", payload |-> ""]
Returned == [kind |-> "returned", payload |-> ""]
PanicWith(p) == [kind |-> "panic", payload |-> p]

\* panic payloads
UnwrapNone == "called Option::unwrap on a None value"
UnwrapErr == "called Result::unwrap on an Err value"
FormatErrorPanic == "FormatError"
UnsatMsg == "Circuit should be satisfied by assignments"
EvalErrPayload == "Box<dyn Any>: R1CSError"
VerifyFailedMsg == "assertion failed: proof.verify.is_ok"

Line(text, from) == [text |-> text, from |-> from]
UsageLine == Line("usage", "args")

\* a call into lib / libspartan / merlin with the values handed over
Call(op, variant) ==
  [ op |-> op, variant |-> variant, inst |-> NoVal, vars |-> NoVal,
    inputs |-> NoVal, gens |-> NoVal, comm |-> NoVal, decomm |-> NoVal,
    proof |-> NoVal, tr |-> NoCallTr, trState |-> NoVal, path |-> "",
    result |-> "" ]

Panicked(o) == o.kind = "panic"

\* what main() does after a step that ended in outcome o
NextPc(o, next) == IF o.kind = "running" THEN next ELSE "done"

(* ------------------------------- Init ---------------------------------- *)
Init ==
  /\ pc = "flag"
  /\ args \in CommandLines
  /\ fs \in FileSystems
  /\ nizk = FALSE
  /\ circuitfn = NoneArg /\ inputsfn = NoneArg /\ witnessfn = NoneArg
  /\ bufh = 0 /\ bufcs = 0 /\ bufw = 0
  /\ r1cs = NoVal
  /\ inst = NoVal /\ assignment_inputs = NoVal /\ assignment_vars = NoVal
  /\ gens = NoVal /\ comm = NoVal /\ decomm = NoVal
  /\ transcripts = << >>
  /\ prover_transcript = NoCallTr /\ verifier_transcript = NoCallTr
  /\ proof = NoVal
  /\ out = << >>
  /\ outcome = Running
  /\ calls = << >>

(* ------------------- lines 22-30: the variant flag --------------------- *)
FlagIsNizk(v) == v = "--nizk"
FlagRecognized(v) == v \in {"--nizk", "--snark"}

\* the match never returns: the default arm sets nizk and prints the usage
ParseFlag ==
  /\ pc = "flag"
  /\ nizk' = FlagIsNizk(ArgGet(2))
  /\ out' = IF FlagRecognized(ArgGet(2)) THEN out ELSE Append(out, UsageLine)
  /\ pc' = "paths"
  /\ UNCHANGED << args, fs, circuitfn, inputsfn, witnessfn, bufh, bufcs, bufw,
                  r1cs, inst, assignment_inputs, assignment_vars, gens, comm,
                  decomm, transcripts, prover_transcript, verifier_transcript,
                  proof, outcome, calls >>

(* ------------------- lines 32-34: the three paths ---------------------- *)
PathsOutcome == IF Len(args) < 6 THEN PanicWith(UnwrapNone) ELSE Running

GetPaths ==
  /\ pc = "paths"
  /\ outcome' = PathsOutcome
  /\ pc' = NextPc(PathsOutcome, "open_h")
  /\ IF Panicked(PathsOutcome)
       THEN UNCHANGED << circuitfn, inputsfn, witnessfn >>
       ELSE /\ circuitfn' = ArgGet(3)
            /\ inputsfn' = ArgGet(4)
            /\ witnessfn' = ArgGet(5)
  /\ UNCHANGED << args, fs, nizk, bufh, bufcs, bufw, r1cs, inst,
                  assignment_inputs, assignment_vars, gens, comm, decomm,
                  transcripts, prover_transcript, verifier_transcript, proof,
                  out, calls >>

(* ------------------- lines 36-44: reading the files -------------------- *)
\* File::open(path).unwrap() followed by read_to_end(..).unwrap()
OpenOutcome(path) == IF fs[path] = 0 THEN PanicWith(UnwrapErr) ELSE Running

OpenCall(path) ==
  [ Call("open", "") EXCEPT !.path = path,
      !.result = IF fs[path] = 0 THEN "Err" ELSE "Ok" ]

ReadInputs ==
  /\ pc = "open_h"
  /\ calls' = Append(calls, OpenCall(inputsfn))
  /\ outcome' = OpenOutcome(inputsfn)
  /\ pc' = NextPc(OpenOutcome(inputsfn), "open_cs")
  /\ bufh' = fs[inputsfn]
  /\ UNCHANGED << args, fs, nizk, circuitfn, inputsfn, witnessfn, bufcs, bufw,
                  r1cs, inst, assignment_inputs, assignment_vars, gens, comm,
                  decomm, transcripts, prover_transcript, verifier_transcript,
                  proof, out >>

ReadCircuit ==
  /\ pc = "open_cs"
  /\ calls' = Append(calls, OpenCall(circuitfn))
  /\ outcome' = OpenOutcome(circuitfn)
  /\ pc' = NextPc(OpenOutcome(circuitfn), "open_w")
  /\ bufcs' = fs[circuitfn]
  /\ UNCHANGED << args, fs, nizk, circuitfn, inputsfn, witnessfn, bufh, bufw,
                  r1cs, inst, assignment_inputs, assignment_vars, gens, comm,
                  decomm, transcripts, prover_transcript, verifier_transcript,
                  proof, out >>

ReadWitness ==
  /\ pc = "open_w"
  /\ calls' = Append(calls, OpenCall(witnessfn))
  /\ outcome' = OpenOutcome(witnessfn)
  /\ pc' = NextPc(OpenOutcome(witnessfn), "parse")
  /\ bufw' = fs[witnessfn]
  /\ UNCHANGED << args, fs, nizk, circuitfn, inputsfn, witnessfn, bufh, bufcs,
                  r1cs, inst, assignment_inputs, assignment_vars, gens, comm,
                  decomm, transcripts, prover_transcript, verifier_transcript,
                  proof, out >>

(* ------------------- lines 47-49: R1csReader / R1cs -------------------- *)
\* the reader either decodes the three buffers or finds them malformed
ParseResults == {"Ok", "FormatError"}

\* lines 48-49 bind the results directly (no Result, no `?`, main returns
\* unit): a failure found inside the reader can only end the run by a panic
ParseOutcome(res) ==
  IF res = "Ok" THEN Running ELSE PanicWith(FormatErrorPanic)

R1csFrom(h, cs, w) == [kind |-> "R1cs", hdr |-> h, cs |-> cs, wit |-> w]

Parse ==
  /\ pc = "parse"
  /\ \E res \in ParseResults :
       /\ calls' = Append(calls, [Call("parse", "") EXCEPT !.result = res])
       /\ outcome' = ParseOutcome(res)
       /\ pc' = NextPc(ParseOutcome(res), "build")
       /\ r1cs' = IF res = "Ok" THEN R1csFrom(bufh, bufcs, bufw) ELSE r1cs
  /\ UNCHANGED << args, fs, nizk, circuitfn, inputsfn, witnessfn, bufh, bufcs,
                  bufw, inst, assignment_inputs, assignment_vars, gens, comm,
                  decomm, transcripts, prover_transcript, verifier_transcript,
                  proof, out >>

(* ------------------- lines 53-59: instance and assignments ------------- *)
InstanceOf(r) == [kind |-> "Instance", of |-> r]
InputsAssignment(r) == [kind |-> "InputsAssignment", of |-> r]
VarsAssignment(r) == [kind |-> "VarsAssignment", of |-> r]

Build ==
  /\ pc = "build"
  /\ inst' = InstanceOf(r1cs)
  /\ assignment_inputs' = InputsAssignment(r1cs)
  /\ assignment_vars' = VarsAssignment(r1cs)
  /\ calls' = Append(calls, [Call("build", "") EXCEPT !.result = "Ok"])
  /\ pc' = "is_sat"
  /\ UNCHANGED << args, fs, nizk, circuitfn, inputsfn, witnessfn, bufh, bufcs,
                  bufw, r1cs, gens, comm, decomm, transcripts,
                  prover_transcript, verifier_transcript, proof, out,
                  outcome >>

(* ------------------- lines 61-69: satisfiability ----------------------- *)
SatResults == {"OkTrue", "OkFalse", "Err"}

\* line 62: inst.is_sat(&assignment_vars, &assignment_inputs)
IsSatCall(res) ==
  [ Call("is_sat", "") EXCEPT !.inst = inst, !.vars = assignment_vars,
      !.inputs = assignment_inputs, !.result = res ]

\* faulty variant: the test of the boolean is dropped
SatMatch_IgnoreFalse(res) ==
  IF res = "Err" THEN PanicWith(EvalErrPayload) ELSE Running

\* faulty variant: one generic failure for both ways is_sat can fail
SatMatch_Collapse(res) ==
  IF res = "OkTrue" THEN Running ELSE PanicWith(UnsatMsg)

\* lines 63-69: the match on the result
SatMatch(res) ==
  IF res = "OkTrue" THEN Running
  ELSE IF res = "OkFalse" THEN PanicWith(UnsatMsg)
  ELSE PanicWith(EvalErrPayload)

IsSat ==
  /\ pc = "is_sat"
  /\ \E res \in SatResults :
       /\ calls' = Append(calls, IsSatCall(res))
       /\ outcome' = SatMatch(res)
       /\ pc' = NextPc(SatMatch(res), "branch")
  /\ UNCHANGED << args, fs, nizk, circuitfn, inputsfn, witnessfn, bufh, bufcs,
                  bufw, r1cs, inst, assignment_inputs, assignment_vars, gens,
                  comm, decomm, transcripts, prover_transcript,
                  verifier_transcript, proof, out >>

(* ------------------- merlin transcripts -------------------------------- *)
\* Transcript::new(label): a new object, nothing appended yet
Transcript_new(label) == [kind |-> "Transcript", label |-> label, msgs |-> << >>]

\* the backend appends its protocol messages to the transcript it is handed
Absorb(ts, id, what) == [ts EXCEPT ![id].msgs = Append(@, what)]

\* faulty variant: the SNARK prover reuses the NIZK label
SnarkProverLabel_Nizk == "nizk_example"

\* the four label literals of main()
NizkProverLabel == "nizk_example"
NizkVerifierLabel == "nizk_example"
SnarkProverLabel == "snark_example"
SnarkVerifierLabel == "snark_example"

VerifyResults == {"Ok", "Err"}

\* faulty variant: the result of verify is not asserted
VerifyMatch_NoAssert(res) == Running

\* faulty variant: the mode is read from the wrong argument
Mode_WrongIndex == ArgGet(2)

\* assert!(proof.verify(..).is_ok())
VerifyMatch(res) == IF res = "Ok" THEN Running ELSE PanicWith(VerifyFailedMsg)

\* args.get(1).unwrap().as_str()
Mode == ArgGet(1)

(* ------------------- lines 74-108: the NIZK branch --------------------- *)
NizkPublicParams(r) == [kind |-> "NIZKGens", of |-> r]

NizkGens ==
  /\ pc = "branch" /\ nizk
  /\ gens' = NizkPublicParams(r1cs)
  /\ calls' = Append(calls, [Call("nizk_public_params", "nizk")
                               EXCEPT !.result = "Ok"])
  /\ pc' = "n_tr"
  /\ UNCHANGED << args, fs, nizk, circuitfn, inputsfn, witnessfn, bufh, bufcs,
                  bufw, r1cs, inst, assignment_inputs, assignment_vars, comm,
                  decomm, transcripts, prover_transcript, verifier_transcript,
                  proof, out, outcome >>

\* faulty variant: the transcript is created and the prove call is left out
NizkProverTranscript_SkipProve ==
  /\ pc = "n_tr"
  /\ transcripts' = Append(transcripts, Transcript_new(NizkProverLabel))
  /\ prover_transcript' = Len(transcripts) + 1
  /\ pc' = "n_mode"
  /\ UNCHANGED << args, fs, nizk, circuitfn, inputsfn, witnessfn, bufh, bufcs,
                  bufw, r1cs, inst, assignment_inputs, assignment_vars, gens,
                  comm, decomm, verifier_transcript, proof, out, outcome,
                  calls >>

NizkProverTranscript ==
  /\ pc = "n_tr"
  /\ transcripts' = Append(transcripts, Transcript_new(NizkProverLabel))
  /\ prover_transcript' = Len(transcripts) + 1
  /\ pc' = "n_prove"
  /\ UNCHANGED << args, fs, nizk, circuitfn, inputsfn, witnessfn, bufh, bufcs,
                  bufw, r1cs, inst, assignment_inputs, assignment_vars, gens,
                  comm, decomm, verifier_transcript, proof, out, outcome,
                  calls >>

\* lines 79-85: NIZK::prove(&inst, vars, &inputs, &gens, &mut prover_transcript)
NizkProveCall ==
  [ Call("prove", "nizk") EXCEPT !.inst = inst, !.vars = assignment_vars,
      !.inputs = assignment_inputs, !.gens = gens, !.tr = prover_transcript,
      !.trState = transcripts[prover_transcript], !.result = "Ok" ]

\* the proof a prove call returns, identified by the call that made it
ProofOf(c, n) ==
  [ kind |-> "Proof", variant |-> c.variant, inst |-> c.inst,
    inputs |-> c.inputs, gens |-> c.gens, label |-> c.trState.label,
    madeBy |-> n ]

\* lines 79-89: prove, then the lengths of the serialized proof
NizkProve ==
  /\ pc = "n_prove"
  /\ calls' = Append(calls, NizkProveCall)
  /\ proof' = ProofOf(NizkProveCall, Len(calls) + 1)
  /\ transcripts' = Absorb(transcripts, NizkProveCall.tr, "prove")
  /\ pc' = "n_mode"
  /\ UNCHANGED << args, fs, nizk, circuitfn, inputsfn, witnessfn, bufh, bufcs,
                  bufw, r1cs, inst, assignment_inputs, assignment_vars, gens,
                  comm, decomm, prover_transcript, verifier_transcript, out,
                  outcome >>

\* lines 93-95
NizkModeProve ==
  /\ pc = "n_mode" /\ Mode = "prove"
  /\ out' = Append(out, Line("Proof length (KB)", "proof"))
  /\ outcome' = Returned
  /\ pc' = "done"
  /\ UNCHANGED << args, fs, nizk, circuitfn, inputsfn, witnessfn, bufh, bufcs,
                  bufw, r1cs, inst, assignment_inputs, assignment_vars, gens,
                  comm, decomm, transcripts, prover_transcript,
                  verifier_transcript, proof, calls >>

\* line 107
NizkModeOther ==
  /\ pc = "n_mode" /\ Mode \notin {"prove", "verify"}
  /\ out' = Append(out, UsageLine)
  /\ outcome' = Returned
  /\ pc' = "done"
  /\ UNCHANGED << args, fs, nizk, circuitfn, inputsfn, witnessfn, bufh, bufcs,
                  bufw, r1cs, inst, assignment_inputs, assignment_vars, gens,
                  comm, decomm, transcripts, prover_transcript,
                  verifier_transcript, proof, calls >>

\* line 97
NizkVerifierTranscript ==
  /\ pc = "n_mode" /\ Mode = "verify"
  /\ transcripts' = Append(transcripts, Transcript_new(NizkVerifierLabel))
  /\ verifier_transcript' = Len(transcripts) + 1
  /\ pc' = "n_verify"
  /\ UNCHANGED << args, fs, nizk, circuitfn, inputsfn, witnessfn, bufh, bufcs,
                  bufw, r1cs, inst, assignment_inputs, assignment_vars, gens,
                  comm, decomm, prover_transcript, proof, out, outcome,
                  calls >>

\* faulty variant: the private assignment is handed to verify as the public one
NizkVerifyCall_VarsAsInputs ==
  [ Call("verify", "nizk") EXCEPT !.proof = proof, !.inst = inst,
      !.inputs = assignment_vars, !.gens = gens,
      !.tr = verifier_transcript,
      !.trState = transcripts[verifier_transcript] ]

\* lines 98-100: proof.verify(&inst, &inputs, &mut verifier_transcript, &gens)
NizkVerifyCall ==
  [ Call("verify", "nizk") EXCEPT !.proof = proof, !.inst = inst,
      !.inputs = assignment_inputs, !.gens = gens,
      !.tr = verifier_transcript,
      !.trState = transcripts[verifier_transcript] ]

NizkReport ==
  << Line("Test", "circuitfn"), Line("Prover runtime (ms)", "time"),
     Line("Verifier runtime (ms)", "time"), Line("Proof length (KB)", "proof") >>

\* lines 98-105
NizkVerify ==
  /\ pc = "n_verify"
  /\ \E res \in VerifyResults :
       /\ calls' = Append(calls, [NizkVerifyCall EXCEPT !.result = res])
       /\ outcome' = IF Panicked(VerifyMatch(res)) THEN VerifyMatch(res)
                     ELSE Returned
       /\ out' = IF Panicked(VerifyMatch(res)) THEN out ELSE out \o NizkReport
  /\ transcripts' = Absorb(transcripts, NizkVerifyCall.tr, "verify")
  /\ pc' = "done"
  /\ UNCHANGED << args, fs, nizk, circuitfn, inputsfn, witnessfn, bufh, bufcs,
                  bufw, r1cs, inst, assignment_inputs, assignment_vars, gens,
                  comm, decomm, prover_transcript, verifier_transcript,
                  proof >>

(* ------------------- lines 109-142: the SNARK branch ------------------- *)
SnarkPublicParams(r) == [kind |-> "SNARKGens", of |-> r]

\* faulty variant: the parameters are derived and the encode step is left out
SnarkGens_SkipEncode ==
  /\ pc = "branch" /\ ~nizk
  /\ gens' = SnarkPublicParams(r1cs)
  /\ calls' = Append(calls, [Call("snark_public_params", "snark")
                               EXCEPT !.result = "Ok"])
  /\ pc' = "s_tr"
  /\ UNCHANGED << args, fs, nizk, circuitfn, inputsfn, witnessfn, bufh, bufcs,
                  bufw, r1cs, inst, assignment_inputs, assignment_vars, comm,
                  decomm, transcripts, prover_transcript, verifier_transcript,
                  proof, out, outcome >>

SnarkGens ==
  /\ pc = "branch" /\ ~nizk
  /\ gens' = SnarkPublicParams(r1cs)
  /\ calls' = Append(calls, [Call("snark_public_params", "snark")
                               EXCEPT !.result = "Ok"])
  /\ pc' = "s_encode"
  /\ UNCHANGED << args, fs, nizk, circuitfn, inputsfn, witnessfn, bufh, bufcs,
                  bufw, r1cs, inst, assignment_inputs, assignment_vars, comm,
                  decomm, transcripts, prover_transcript, verifier_transcript,
                  proof, out, outcome >>

\* line 113: SNARK::encode(&inst, &gens)
EncodeCall ==
  [ Call("encode", "snark") EXCEPT !.inst = inst, !.gens = gens,
      !.result = "Ok" ]

CommitmentOf(c, n) ==
  [kind |-> "Commitment", inst |-> c.inst, gens |-> c.gens, madeBy |-> n]
DecommitmentOf(c, n) ==
  [kind |-> "Decommitment", inst |-> c.inst, gens |-> c.gens, madeBy |-> n]

SnarkEncode ==
  /\ pc = "s_encode"
  /\ calls' = Append(calls, EncodeCall)
  /\ comm' = CommitmentOf(EncodeCall, Len(calls) + 1)
  /\ decomm' = DecommitmentOf(EncodeCall, Len(calls) + 1)
  /\ pc' = "s_tr"
  /\ UNCHANGED << args, fs, nizk, circuitfn, inputsfn, witnessfn, bufh, bufcs,
                  bufw, r1cs, inst, assignment_inputs, assignment_vars, gens,
                  transcripts, prover_transcript, verifier_transcript, proof,
                  out, outcome >>

SnarkProverTranscript ==
  /\ pc = "s_tr"
  /\ transcripts' = Append(transcripts, Transcript_new(SnarkProverLabel))
  /\ prover_transcript' = Len(transcripts) + 1
  /\ pc' = "s_prove"
  /\ UNCHANGED << args, fs, nizk, circuitfn, inputsfn, witnessfn, bufh, bufcs,
                  bufw, r1cs, inst, assignment_inputs, assignment_vars, gens,
                  comm, decomm, verifier_transcript, proof, out, outcome,
                  calls >>

\* lines 117-124
SnarkProveCall ==
  [ Call("prove", "snark") EXCEPT !.inst = inst, !.decomm = decomm,
      !.vars = assignment_vars, !.inputs = assignment_inputs, !.gens = gens,
      !.tr = prover_transcript, !.trState = transcripts[prover_transcript],
      !.result = "Ok" ]

\* lines 125-126
SnarkProverReport == << Line("Circuit", "circuitfn"), Line("Prover", "time") >>

\* lines 117-126
SnarkProve ==
  /\ pc = "s_prove"
  /\ calls' = Append(calls, SnarkProveCall)
  /\ proof' = ProofOf(SnarkProveCall, Len(calls) + 1)
  /\ transcripts' = Absorb(transcripts, SnarkProveCall.tr, "prove")
  /\ out' = out \o SnarkProverReport
  /\ pc' = "s_mode"
  /\ UNCHANGED << args, fs, nizk, circuitfn, inputsfn, witnessfn, bufh, bufcs,
                  bufw, r1cs, inst, assignment_inputs, assignment_vars, gens,
                  comm, decomm, prover_transcript, verifier_transcript,
                  outcome >>

\* lines 129-131
SnarkModeProve ==
  /\ pc = "s_mode" /\ Mode = "prove"
  /\ out' = Append(out, Line("Prover", "time"))
  /\ outcome' = Returned
  /\ pc' = "done"
  /\ UNCHANGED << args, fs, nizk, circuitfn, inputsfn, witnessfn, bufh, bufcs,
                  bufw, r1cs, inst, assignment_inputs, assignment_vars, gens,
                  comm, decomm, transcripts, prover_transcript,
                  verifier_transcript, proof, calls >>

\* line 140
SnarkModeOther ==
  /\ pc = "s_mode" /\ Mode \notin {"prove", "verify"}
  /\ out' = Append(out, UsageLine)
  /\ outcome' = Returned
  /\ pc' = "done"
  /\ UNCHANGED << args, fs, nizk, circuitfn, inputsfn, witnessfn, bufh, bufcs,
                  bufw, r1cs, inst, assignment_inputs, assignment_vars, gens,
                  comm, decomm, transcripts, prover_transcript,
                  verifier_transcript, proof, calls >>

\* line 133
SnarkVerifierTranscript ==
  /\ pc = "s_mode" /\ Mode = "verify"
  /\ transcripts' = Append(transcripts, Transcript_new(SnarkVerifierLabel))
  /\ verifier_transcript' = Len(transcripts) + 1
  /\ pc' = "s_verify"
  /\ UNCHANGED << args, fs, nizk, circuitfn, inputsfn, witnessfn, bufh, bufcs,
                  bufw, r1cs, inst, assignment_inputs, assignment_vars, gens,
                  comm, decomm, prover_transcript, proof, out, outcome,
                  calls >>

\* faulty variant: verify is handed the prover's transcript
SnarkVerifyCall_ProverTranscript ==
  [ Call("verify", "snark") EXCEPT !.proof = proof, !.comm = comm,
      !.inputs = assignment_inputs, !.gens = gens,
      !.tr = prover_transcript,
      !.trState = transcripts[prover_transcript] ]

\* faulty variant: the SNARK proof is handed to the NIZK verifier
SnarkVerifyCall_NizkVerifier ==
  [ Call("verify", "nizk") EXCEPT !.proof = proof, !.inst = inst,
      !.inputs = assignment_inputs, !.gens = gens,
      !.tr = verifier_transcript,
      !.trState = transcripts[verifier_transcript] ]

\* faulty variant: verify is handed the decommitment
SnarkVerifyCall_Decomm ==
  [ Call("verify", "snark") EXCEPT !.proof = proof, !.comm = decomm,
      !.decomm = decomm, !.inputs = assignment_inputs, !.gens = gens,
      !.tr = verifier_transcript,
      !.trState = transcripts[verifier_transcript] ]

\* faulty variant: verify is handed parameters derived anew, of the other kind
SnarkVerifyCall_OtherGens ==
  [ Call("verify", "snark") EXCEPT !.proof = proof, !.comm = comm,
      !.inputs = assignment_inputs, !.gens = NizkPublicParams(r1cs),
      !.tr = verifier_transcript,
      !.trState = transcripts[verifier_transcript] ]

\* lines 134-136: proof.verify(&comm, &inputs, &mut verifier_transcript, &gens)
SnarkVerifyCall ==
  [ Call("verify", "snark") EXCEPT !.proof = proof, !.comm = comm,
      !.inputs = assignment_inputs, !.gens = gens,
      !.tr = verifier_transcript,
      !.trState = transcripts[verifier_transcript] ]

\* lines 137-138
SnarkVerifierReport ==
  << Line("Verifier", "time"),
     Line("SNARK proof verification successful", "none") >>

\* lines 134-138
SnarkVerify ==
  /\ pc = "s_verify"
  /\ \E res \in VerifyResults :
       /\ calls' = Append(calls, [SnarkVerifyCall EXCEPT !.result = res])
       /\ outcome' = IF Panicked(VerifyMatch(res)) THEN VerifyMatch(res)
                     ELSE Returned
       /\ out' = IF Panicked(VerifyMatch(res)) THEN out
                 ELSE out \o SnarkVerifierReport
  /\ transcripts' = Absorb(transcripts, SnarkVerifyCall.tr, "verify")
  /\ pc' = "done"
  /\ UNCHANGED << args, fs, nizk, circuitfn, inputsfn, witnessfn, bufh, bufcs,
                  bufw, r1cs, inst, assignment_inputs, assignment_vars, gens,
                  comm, decomm, prover_transcript, verifier_transcript,
                  proof >>

(* ------------------------------ the run -------------------------------- *)
Next ==
  \/ ParseFlag \/ GetPaths
  \/ ReadInputs \/ ReadCircuit \/ ReadWitness
  \/ Parse \/ Build \/ IsSat
  \/ NizkGens \/ NizkProverTranscript \/ NizkProve
  \/ NizkModeProve \/ NizkModeOther \/ NizkVerifierTranscript \/ NizkVerify
  \/ SnarkGens \/ SnarkEncode \/ SnarkProverTranscript \/ SnarkProve
  \/ SnarkModeProve \/ SnarkModeOther \/ SnarkVerifierTranscript
  \/ SnarkVerify

Spec == Init /\ [][Next]_vars

(* ============================ properties =============================== *)
CallIdx(op) == { k \in DOMAIN calls : calls[k].op = op }
Backend == {"encode", "prove", "verify"}
Pipeline == {"open", "parse", "build", "is_sat", "nizk_public_params",
             "snark_public_params", "encode", "prove", "verify"}

\* C1: prove (and encode) is invoked only after is_sat was invoked on the
\* same instance and assignments and returned Ok(true); no run in which
\* is_sat returned Ok(false) or Err reaches prove or encode.
C1_ProveOnlyAfterSat ==
  /\ \A k \in CallIdx("prove") :
       \E j \in CallIdx("is_sat") :
         /\ j < k
         /\ calls[j].result = "OkTrue"
         /\ calls[j].inst = calls[k].inst
         /\ calls[j].vars = calls[k].vars
         /\ calls[j].inputs = calls[k].inputs
  /\ \A k \in CallIdx("encode") :
       \E j \in CallIdx("is_sat") :
         j < k /\ calls[j].result = "OkTrue" /\ calls[j].inst = calls[k].inst
  /\ \A j \in CallIdx("is_sat") :
       calls[j].result # "OkTrue" =>
         CallIdx("prove") = {} /\ CallIdx("encode") = {}

C1_Witness ==
  /\ \E k \in CallIdx("prove") : calls[k].variant = "snark"
  /\ CallIdx("encode") # {}

\* C2 (as claimed): after verify returns an error the run is in a
\* recoverable outcome, not a panic.
C2_VerifyErrorIsNotAbort ==
  \A k \in CallIdx("verify") :
    calls[k].result = "Err" => ~Panicked(outcome)

\* C3: when is_sat returns Ok(false) the run stops before prove in the
\* unsatisfied-circuit outcome, and that outcome is the outcome of no other
\* failure (is_sat returning Err, a failed verification, or any other).
UnsatOutcome == PanicWith("Circuit should be satisfied by assignments")

C3_UnsatReportedDistinctly ==
  /\ \A j \in CallIdx("is_sat") :
       calls[j].result = "OkFalse" =>
         /\ pc = "done"
         /\ outcome = UnsatOutcome
         /\ \A k \in DOMAIN calls : calls[k].op \notin Backend
  /\ \A j \in CallIdx("is_sat") :
       calls[j].result = "Err" =>
         pc = "done" /\ Panicked(outcome) /\ outcome # UnsatOutcome
  /\ outcome = UnsatOutcome =>
       \E j \in CallIdx("is_sat") : calls[j].result = "OkFalse"

C3_Witness ==
  \E j \in CallIdx("is_sat") :
    calls[j].result = "OkFalse" /\ outcome = UnsatOutcome

\* C4 (as claimed): when parsing the three buffers fails the run ends with
\* a FormatError value and not a panic, and no later step is invoked.
C4_FormatErrorReturned ==
  \A k \in CallIdx("parse") :
    calls[k].result = "FormatError" =>
      /\ ~Panicked(outcome)
      /\ \A j \in DOMAIN calls : j > k => calls[j].op \notin Pipeline

\* C5 (as claimed): with a mode other than prove/verify, or a variant flag
\* other than --nizk/--snark, no step of the pipeline is executed.
C5_UsageInsteadOfRun ==
  (Mode \notin {"prove", "verify"} \/ ~FlagRecognized(ArgGet(2))) =>
    \A k \in DOMAIN calls : calls[k].op \notin Pipeline

\* C6: the public assignment handed to verify is the value handed to prove
\* and to is_sat earlier in the run.
C6_SamePublicAssignment ==
  \A v \in CallIdx("verify") :
    /\ \E p \in CallIdx("prove") : p < v
    /\ \A p \in CallIdx("prove") : calls[p].inputs = calls[v].inputs
    /\ \A j \in CallIdx("is_sat") : calls[j].inputs = calls[v].inputs

C6_Witness ==
  \E v \in CallIdx("verify") : calls[v].variant = "nizk"

\* C7: the verifier's transcript is another Transcript object than the
\* prover's, created with the same label, and both are handed over with
\* nothing appended.
C7_FreshVerifierTranscript ==
  \A v \in CallIdx("verify") :
    /\ calls[v].trState.msgs = << >>
    /\ \A p \in CallIdx("prove") :
         /\ calls[v].tr # calls[p].tr
         /\ calls[v].trState.label = calls[p].trState.label
         /\ calls[p].trState.msgs = << >>

C7_Witness ==
  \E v \in CallIdx("verify") :
    calls[v].variant = "snark" /\ Len(transcripts) = 2

\* C8: no transcript of a SNARK run carries a NIZK label and no transcript
\* of a NIZK run carries a SNARK label.
NizkLabels == {NizkProverLabel, NizkVerifierLabel}
SnarkLabels == {SnarkProverLabel, SnarkVerifierLabel}

C8_LabelsSeparateVariants ==
  /\ NizkLabels \cap SnarkLabels = {}
  /\ \A i \in DOMAIN transcripts :
       IF nizk THEN transcripts[i].label \in NizkLabels
               ELSE transcripts[i].label \in SnarkLabels
  /\ \A k \in DOMAIN calls :
       calls[k].tr # NoCallTr =>
         IF calls[k].variant = "nizk"
           THEN calls[k].trState.label \notin SnarkLabels
           ELSE calls[k].trState.label \notin NizkLabels

C8_Witness ==
  /\ ~nizk
  /\ Len(transcripts) = 2
  /\ \E k \in CallIdx("verify") : calls[k].variant = "snark"

\* C9: verify uses the verifier, the parameters and the transcript label
\* of the variant whose prove produced the proof in that run.
GensKind(variant) == IF variant = "nizk" THEN "NIZKGens" ELSE "SNARKGens"

C9_VerifierMatchesProver ==
  \A v \in CallIdx("verify") :
    \E p \in CallIdx("prove") :
      /\ p < v
      /\ calls[v].proof = ProofOf(calls[p], p)
      /\ calls[v].variant = calls[p].variant
      /\ calls[v].gens = calls[p].gens
      /\ calls[v].gens.kind = GensKind(calls[p].variant)
      /\ calls[v].trState.label = calls[p].trState.label

C9_Witness ==
  \E v \in CallIdx("verify") :
    calls[v].variant = "snark" /\ calls[v].result = "Ok"

\* C10: the decommitment of encode goes to prove only; verify gets the
\* commitment of that encode call; nothing printed comes from the
\* decommitment.
C10_DecommitmentStaysWithProver ==
  /\ \A k \in DOMAIN calls :
       calls[k].decomm # NoVal =>
         /\ calls[k].op = "prove"
         /\ \E e \in CallIdx("encode") :
              e < k /\ calls[k].decomm = DecommitmentOf(calls[e], e)
  /\ \A v \in CallIdx("verify") :
       calls[v].variant = "snark" =>
         /\ calls[v].comm # decomm
         /\ \E e \in CallIdx("encode") :
              /\ e < v
              /\ calls[v].comm = CommitmentOf(calls[e], e)
              /\ \A p \in CallIdx("prove") :
                   calls[p].decomm = DecommitmentOf(calls[e], e)
  /\ \A i \in DOMAIN out : out[i].from # "decomm"

C10_Witness ==
  /\ pc = "done"
  /\ \E v \in CallIdx("verify") :
       calls[v].variant = "snark" /\ calls[v].comm = comm
  /\ \E p \in CallIdx("prove") : calls[p].decomm = decomm

\* C11: the steps of a run are made in the order read, parse, build,
\* is_sat, parameter derivation, encode, prove, verify, each at most once
\* after the reads and only after the earlier one returned without
\* failure; verify is invoked only on a proof that prove has returned.
StepRank(op) ==
  IF op = "open" THEN 0
  ELSE IF op = "parse" THEN 1
  ELSE IF op = "build" THEN 2
  ELSE IF op = "is_sat" THEN 3
  ELSE IF op \in {"nizk_public_params", "snark_public_params"} THEN 4
  ELSE IF op = "encode" THEN 5
  ELSE IF op = "prove" THEN 6
  ELSE 7

Succeeded(c) == c.result \in {"Ok", "OkTrue"}

C11_SynchronousChain ==
  /\ \A j, k \in DOMAIN calls :
       j < k =>
         /\ StepRank(calls[j].op) <= StepRank(calls[k].op)
         /\ StepRank(calls[j].op) = StepRank(calls[k].op) =>
              calls[k].op = "open"
         /\ Succeeded(calls[j])
  /\ \A k \in DOMAIN calls :
       LET r == StepRank(calls[k].op) IN
         /\ r \in 1..4 => \E j \in 1..(k - 1) : StepRank(calls[j].op) = r - 1
         /\ r = 1 => Cardinality({ j \in 1..(k - 1) :
                                     calls[j].op = "open" }) = 3
         /\ r = 6 => \E j \in 1..(k - 1) : StepRank(calls[j].op) = 4
  /\ \A v \in CallIdx("verify") :
       /\ calls[v].proof # NoVal
       /\ \E p \in CallIdx("prove") :
            p < v /\ Succeeded(calls[p]) /\ calls[v].proof = ProofOf(calls[p], p)

C11_Witness ==
  /\ pc = "done"
  /\ \E v \in CallIdx("verify") : calls[v].variant = "nizk"
  /\ Len(calls) = 9

\* C12: encode is invoked exactly once in every SNARK run that passed the
\* satisfiability check, before prove, and never in a NIZK run.
SatPassed == \E j \in CallIdx("is_sat") : calls[j].result = "OkTrue"
PastEncode == pc \in {"s_tr", "s_prove", "s_mode", "s_verify", "done"}

C12_EncodeOncePerSnarkRun ==
  /\ Cardinality(CallIdx("encode")) <= 1
  /\ \A e \in CallIdx("encode") :
       ~nizk /\ calls[e].variant = "snark" /\ SatPassed
  /\ \A p \in CallIdx("prove") :
       IF calls[p].variant = "snark"
         THEN \E e \in CallIdx("encode") : e < p
         ELSE CallIdx("encode") = {}
  /\ (~nizk /\ SatPassed /\ PastEncode) =>
       Cardinality(CallIdx("encode")) = 1
  /\ nizk => CallIdx("encode") = {}

C12_Witness ==
  /\ pc = "done" /\ ~nizk
  /\ Cardinality(CallIdx("encode")) = 1
  /\ \E p \in CallIdx("prove") : calls[p].variant = "snark"

\* C13: the parameters are derived once per run, by the derivation of the
\* selected variant, and that one value is handed to encode, prove and
\* verify.
Derivations == CallIdx("nizk_public_params") \cup CallIdx("snark_public_params")
PastGens == pc \notin {"flag", "paths", "open_h", "open_cs", "open_w",
                       "parse", "build", "is_sat", "branch"}

C13_ParametersDerivedOnce ==
  /\ Cardinality(Derivations) <= 1
  /\ (SatPassed /\ PastGens) => Cardinality(Derivations) = 1
  /\ \A d \in Derivations :
       /\ ArgGet(2) = "--nizk" =>
            calls[d].op = "nizk_public_params" /\ gens.kind = "NIZKGens"
       /\ ArgGet(2) = "--snark" =>
            calls[d].op = "snark_public_params" /\ gens.kind = "SNARKGens"
  /\ \A k \in DOMAIN calls :
       calls[k].op \in Backend =>
         /\ calls[k].gens = gens
         /\ \E d \in Derivations : d < k
  /\ \A v \in CallIdx("verify") :
       \A p \in CallIdx("prove") : calls[v].gens = calls[p].gens

C13_Witness ==
  /\ pc = "done"
  /\ ArgGet(2) = "--snark"
  /\ \E v \in CallIdx("verify") : calls[v].gens = gens
  /\ \E e \in CallIdx("encode") : calls[e].gens = gens

\* C14: an unreadable input file, an is_sat result other than Ok(true) and
\* a verify error each abort the process; the failing step is the last one
\* of the run and nothing is reported after it.
Reports ==
  { NizkReport[i] : i \in DOMAIN NizkReport }
    \cup { SnarkVerifierReport[i] : i \in DOMAIN SnarkVerifierReport }

Aborting(k) ==
  /\ Panicked(outcome)
  /\ pc = "done"
  /\ k = Len(calls)

C14_AbortsAreTerminal ==
  /\ \A k \in CallIdx("open") :
       calls[k].result = "Err" =>
         Aborting(k) /\ \A i \in DOMAIN out : out[i] = UsageLine
  /\ \A k \in CallIdx("is_sat") :
       calls[k].result # "OkTrue" =>
         Aborting(k) /\ \A i \in DOMAIN out : out[i] = UsageLine
  /\ \A k \in CallIdx("verify") :
       calls[k].result = "Err" =>
         Aborting(k) /\ \A i \in DOMAIN out : out[i] \notin Reports
  /\ Panicked(outcome) => pc = "done" /\ ~ENABLED Next

C14_Witness ==
  /\ Panicked(outcome)
  /\ \E k \in CallIdx("verify") : calls[k].result = "Err"

\* C15: verify is invoked exactly when the mode argument is verify and
\* prove has completed; in mode prove it never is; the proof verified is
\* the one prove returned earlier in the same run.
C15_VerifyOnlyInVerifyMode ==
  /\ \A v \in CallIdx("verify") :
       /\ ArgGet(1) = "verify"
       /\ \E p \in CallIdx("prove") :
            /\ p < v
            /\ calls[v].proof = ProofOf(calls[p], p)
            /\ calls[v].proof = proof
  /\ ArgGet(1) = "prove" => CallIdx("verify") = {}
  /\ (pc = "done" /\ ArgGet(1) = "verify" /\ CallIdx("prove") # {}) =>
       Cardinality(CallIdx("verify")) = 1
  /\ (pc = "done" /\ ArgGet(1) # "verify") => CallIdx("verify") = {}

C15_Witness ==
  /\ pc = "done"
  /\ ArgGet(1) = "verify"
  /\ \E v \in CallIdx("verify") : calls[v].proof = proof /\ proof # NoVal

====
